---- MODULE Spec2Model ----
(***************************************************************************)
(* A model of the JSON-LD node object (src/src/node.rs) and of the base    *)
(* text direction (src/src/direction.rs).                                  *)
(*                                                                         *)
(* Representation.  Option<X> is a sequence of length 0 (None) or 1        *)
(* (Some).  A HashSet is the sequence of its elements in iteration order   *)
(* (no element twice); a HashMap is the sequence of its entries in         *)
(* iteration order (no key twice).  The iteration order of a hash          *)
(* collection is unspecified, so an operation that adds an element may     *)
(* leave the collection in any order: such operations yield the SET of     *)
(* collections the program may hold afterwards.                            *)
(***************************************************************************)
EXTENDS Integers, Sequences, FiniteSets, TLC

\* ------------------------------------------------------------------ bounds
\* Longest iterator handed to insert_all / insert_all_reverse.
MaxIter == 2

\* ------------------------------------------------------------ value domains
\* Property keys (Property<T>), objects (Object<T>), identity keys (Key<T>).
Props == {"name", "knows"}
Objs == {"Alice", "Alicia"}
Ids == {"_:b0"}
Types == {"Person"}
Langs == {"en"}
\* Strings offered to Direction::try_from.
Tokens == {"ltr", "rtl", "LTR", "Rtl", "", "auto"}

\* ------------------------------------------------------------------ Option
None == <<>>

Some(x) == <<x>>

is_none(o) == Len(o) = 0

is_some(o) == Len(o) = 1

unwrap(o) == o[1]

\* ------------------------------------------------------ sequences and sets
SetOf(s) == {s[i] : i \in DOMAIN s}

\* Every sequence that enumerates the finite set S, each element once.
AllOrders(S) ==
  {s \in [1..Cardinality(S) -> S] : \A i, j \in 1..Cardinality(S) : s[i] = s[j] => i = j}

SeqsUpTo(S, n) == UNION {[1..m -> S] : m \in 0..n}

\* ----------------------------------------------------------------- HashSet
HashSet_new == <<>>

HashSet_contains(s, v) == \E i \in DOMAIN s : s[i] = v

\* HashSet::insert: nothing changes when the value is present.
HashSet_insert(s, v) ==
  IF HashSet_contains(s, v) THEN {s} ELSE AllOrders(SetOf(s) \cup {v})

\* HashSet::extend: inserts every value of the iterator.
HashSet_extend(s, values) ==
  IF SetOf(values) \subseteq SetOf(s) THEN {s} ELSE AllOrders(SetOf(s) \cup SetOf(values))

\* Iterator::collect into a HashSet.
HashSet_collect(values) == AllOrders(SetOf(values))

\* HashSet's PartialEq: same length and every element of one is in the other.
HashSet_eq(s, t) ==
  /\ Len(s) = Len(t)
  /\ \A i \in DOMAIN s : HashSet_contains(t, s[i])

\* PartialEq of Option<HashSet<_>>.
OptSet_eq(a, b) ==
  /\ Len(a) = Len(b)
  /\ is_some(a) => HashSet_eq(unwrap(a), unwrap(b))

\* ----------------------------------------------------------------- HashMap
HashMap_new == <<>>

HashMap_is_empty(m) == Len(m) = 0

HashMap_contains(m, k) == \E i \in DOMAIN m : m[i].key = k

\* The value set stored under k (k is present).
HashMap_get(m, k) == m[CHOOSE i \in DOMAIN m : m[i].key = k].values

\* get_mut followed by a write of the value set: the entry keeps its place.
HashMap_set(m, k, vs) ==
  [i \in DOMAIN m |-> IF m[i].key = k THEN [key |-> k, values |-> vs] ELSE m[i]]

\* HashMap::insert of an absent key.
HashMap_insert(m, k, vs) == AllOrders(SetOf(m) \cup {[key |-> k, values |-> vs]})

\* HashMap's PartialEq: same length and every key maps to an equal value.
HashMap_eq(m1, m2) ==
  /\ Len(m1) = Len(m2)
  /\ \A i \in DOMAIN m1 :
       /\ HashMap_contains(m2, m1[i].key)
       /\ HashSet_eq(m1[i].values, HashMap_get(m2, m1[i].key))

\* --------------------------------------------------------------- Direction
Ltr == "Ltr"

Rtl == "Rtl"

Direction == {Ltr, Rtl}

Ok(x) == [ok |-> TRUE, val |-> x]

Err(x) == [ok |-> FALSE, val |-> x]

\* try_from folding the case of its input.
try_from_any_case(name) ==
  CASE name \in {"ltr", "LTR"} -> Ok(Ltr)
    [] name \in {"rtl", "Rtl"} -> Ok(Rtl)
    [] OTHER -> Err(name)

try_from(name) ==
  CASE name = "ltr" -> Ok(Ltr)
    [] name = "rtl" -> Ok(Rtl)
    [] OTHER -> Err(name)

fmt(d) == IF d = Ltr THEN "ltr" ELSE "rtl"

\* -------------------------------------------------------------------- Node
Node_new ==
  [ id |-> None,
    types |-> <<>>,
    graph |-> None,
    included |-> None,
    language |-> None,
    direction |-> None,
    expanded_property |-> None,
    properties |-> HashMap_new,
    reverse_properties |-> HashMap_new ]

\* is_empty also asking for an absent id.
is_empty_and_no_id(n) ==
  /\ is_none(n.id)
  /\ Len(n.types) = 0
  /\ is_none(n.graph)
  /\ is_none(n.included)
  /\ is_none(n.language)
  /\ is_none(n.direction)
  /\ is_none(n.expanded_property)
  /\ HashMap_is_empty(n.properties)
  /\ HashMap_is_empty(n.reverse_properties)

is_empty(n) ==
  /\ Len(n.types) = 0
  /\ is_none(n.graph)
  /\ is_none(n.included)
  /\ is_none(n.language)
  /\ is_none(n.direction)
  /\ is_none(n.expanded_property)
  /\ HashMap_is_empty(n.properties)
  /\ HashMap_is_empty(n.reverse_properties)

\* into_unnamed_graph not looking at included.
into_unnamed_graph_any_included(n) ==
  IF /\ is_none(n.id)
     /\ Len(n.types) = 0
     /\ is_some(n.graph)
     /\ is_none(n.language)
     /\ is_none(n.direction)
     /\ is_none(n.expanded_property)
     /\ HashMap_is_empty(n.properties)
     /\ HashMap_is_empty(n.reverse_properties)
  THEN Ok(unwrap(n.graph))
  ELSE Err(n)

into_unnamed_graph(n) ==
  IF /\ is_none(n.id)
     /\ Len(n.types) = 0
     /\ is_some(n.graph)
     /\ is_none(n.included)
     /\ is_none(n.language)
     /\ is_none(n.direction)
     /\ is_none(n.expanded_property)
     /\ HashMap_is_empty(n.properties)
     /\ HashMap_is_empty(n.reverse_properties)
  THEN Ok(unwrap(n.graph))
  ELSE Err(n)

\* The sequence the Objects iterator yields until it returns None.
get(n, prop) ==
  IF HashMap_contains(n.properties, prop)
  THEN HashMap_get(n.properties, prop)
  ELSE <<>>

\* insert replacing the value set of a present key by the new value alone.
insert_overwrite(n, prop, value) ==
  IF HashMap_contains(n.properties, prop)
  THEN {[n EXCEPT !.properties = HashMap_set(n.properties, prop, <<value>>)]}
  ELSE {[n EXCEPT !.properties = m] : m \in HashMap_insert(n.properties, prop, <<value>>)}

\* insert keeping the values of a key in a list: a value may be there twice.
insert_push(n, prop, value) ==
  IF HashMap_contains(n.properties, prop)
  THEN {[n EXCEPT !.properties =
           HashMap_set(n.properties, prop, Append(HashMap_get(n.properties, prop), value))]}
  ELSE {[n EXCEPT !.properties = m] : m \in HashMap_insert(n.properties, prop, <<value>>)}

insert(n, prop, value) ==
  IF HashMap_contains(n.properties, prop)
  THEN {[n EXCEPT !.properties = HashMap_set(n.properties, prop, vs)] :
          vs \in HashSet_insert(HashMap_get(n.properties, prop), value)}
  ELSE {[n EXCEPT !.properties = m] :
          m \in UNION {HashMap_insert(n.properties, prop, vs) :
                         vs \in HashSet_insert(HashSet_new, value)}}

\* insert_all without the peek: an empty iterator is collected too.
insert_all_no_peek(n, prop, values) ==
  IF HashMap_contains(n.properties, prop)
  THEN {[n EXCEPT !.properties = HashMap_set(n.properties, prop, vs)] :
          vs \in HashSet_extend(HashMap_get(n.properties, prop), values)}
  ELSE {[n EXCEPT !.properties = m] :
          m \in UNION {HashMap_insert(n.properties, prop, vs) :
                         vs \in HashSet_collect(values)}}

insert_all(n, prop, values) ==
  IF Len(values) > 0
  THEN IF HashMap_contains(n.properties, prop)
       THEN {[n EXCEPT !.properties = HashMap_set(n.properties, prop, vs)] :
               vs \in HashSet_extend(HashMap_get(n.properties, prop), values)}
       ELSE {[n EXCEPT !.properties = m] :
               m \in UNION {HashMap_insert(n.properties, prop, vs) :
                              vs \in HashSet_collect(values)}}
  ELSE {n}

insert_reverse(n, reverse_prop, reverse_value) ==
  IF HashMap_contains(n.properties, reverse_prop)
  THEN {[n EXCEPT !.properties = HashMap_set(n.properties, reverse_prop, vs)] :
          vs \in HashSet_insert(HashMap_get(n.properties, reverse_prop), reverse_value)}
  ELSE {[n EXCEPT !.properties = m] :
          m \in UNION {HashMap_insert(n.properties, reverse_prop, vs) :
                         vs \in HashSet_insert(HashSet_new, reverse_value)}}

insert_all_reverse(n, reverse_prop, reverse_values) ==
  IF Len(reverse_values) > 0
  THEN IF HashMap_contains(n.properties, reverse_prop)
       THEN {[n EXCEPT !.properties = HashMap_set(n.properties, reverse_prop, vs)] :
               vs \in HashSet_extend(HashMap_get(n.properties, reverse_prop), reverse_values)}
       ELSE {[n EXCEPT !.properties = m] :
               m \in UNION {HashMap_insert(n.properties, reverse_prop, vs) :
                              vs \in HashSet_collect(reverse_values)}}
  ELSE {n}

\* #[derive(PartialEq, Eq)] on Node: field by field.
Node_eq(a, b) ==
  /\ a.id = b.id
  /\ a.types = b.types
  /\ OptSet_eq(a.graph, b.graph)
  /\ OptSet_eq(a.included, b.included)
  /\ a.language = b.language
  /\ a.direction = b.direction
  /\ a.expanded_property = b.expanded_property
  /\ HashMap_eq(a.properties, b.properties)
  /\ HashMap_eq(a.reverse_properties, b.reverse_properties)

\* ----------------------------------------------------------------- hashing
\* A Hasher is its running state; write folds one word into it, in order.
HashMod == 65536

HashMul == 31

Hasher_new == 0

write(h, x) == (h * HashMul + x + 1) % HashMod

\* The word an opaque key, object, string or enum variant feeds a hasher.
AtomSeq == <<"name", "knows", "Alice", "Alicia", "_:b0", "Person", "en", "Ltr", "Rtl">>

code(x) == CHOOSE i \in DOMAIN AtomSeq : AtomSeq[i] = x

\* Hash for Option<X>: the discriminant, then the payload.
hash_opt(o, h) == IF is_none(o) THEN write(h, 0) ELSE write(write(h, 1), code(unwrap(o)))

\* Hash for Vec<X>: the length, then the elements in order.
RECURSIVE hash_slice(_, _)
hash_slice(s, h) == IF Len(s) = 0 THEN h ELSE hash_slice(Tail(s), write(h, code(Head(s))))

hash_vec(s, h) == hash_slice(s, write(h, Len(s)))

\* The hash of one element on its own, with a hasher of its own.
item_hash(x) == write(Hasher_new, code(x))

\* Wrapping sum of the elements' own hashes, in iteration order.
RECURSIVE sum_hashes(_)
sum_hashes(s) == IF Len(s) = 0 THEN 0 ELSE (item_hash(Head(s)) + sum_hashes(Tail(s))) % HashMod

\* util::hash_set_opt: an absent set folds in a fixed marker, a present one the
\* commutative combination of its elements' hashes.
hash_set_opt(o, h) == IF is_none(o) THEN write(h, 0) ELSE write(h, sum_hashes(unwrap(o)))

entry_hash(e) == write(write(Hasher_new, code(e.key)), sum_hashes(e.values))

RECURSIVE sum_entries(_)
sum_entries(m) == IF Len(m) = 0 THEN 0 ELSE (entry_hash(Head(m)) + sum_entries(Tail(m))) % HashMod

\* util::hash_map_of_sets: the commutative combination of the entries' hashes.
hash_map_of_sets(m, h) == write(h, sum_entries(m))

\* A map hashed entry after entry in iteration order.
RECURSIVE hash_entries_in_order(_, _)
hash_entries_in_order(m, h) ==
  IF Len(m) = 0 THEN h
  ELSE hash_entries_in_order(Tail(m),
         hash_slice(Head(m).values, write(h, code(Head(m).key))))

Node_hash_in_order(n) ==
  LET h1 == hash_opt(n.id, Hasher_new)
      h2 == hash_vec(n.types, h1)
      h3 == hash_set_opt(n.graph, h2)
      h4 == hash_set_opt(n.included, h3)
      h5 == hash_opt(n.language, h4)
      h6 == hash_opt(n.direction, h5)
      h7 == hash_opt(n.expanded_property, h6)
      h8 == hash_entries_in_order(n.properties, h7)
  IN  hash_entries_in_order(n.reverse_properties, h8)

\* impl Hash for Node, followed by Hasher::finish.
Node_hash(n) ==
  LET h1 == hash_opt(n.id, Hasher_new)
      h2 == hash_vec(n.types, h1)
      h3 == hash_set_opt(n.graph, h2)
      h4 == hash_set_opt(n.included, h3)
      h5 == hash_opt(n.language, h4)
      h6 == hash_opt(n.direction, h5)
      h7 == hash_opt(n.expanded_property, h6)
      h8 == hash_map_of_sets(n.properties, h7)
  IN  hash_map_of_sets(n.reverse_properties, h8)

\* ------------------------------------------------------------------- state
\* nodes: the nodes a caller holds, by slot.
\* fwd:   per slot, the (property, value) pairs handed to insert / insert_all.
\* inserted: per slot, whether an insertion call has handed the node a value.
\* last:  the last call observed: operation, slot, property key, the set of
\*        values (or the string) handed in, and what the call returned.
VARIABLES nodes, fwd, inserted, last

vars == <<nodes, fwd, inserted, last>>

Slots == {1, 2}

NoKey == ""

NoArg == {}

NoRes == <<>>

Call(op, i, key, arg, res) == [op |-> op, slot |-> i, key |-> key, arg |-> arg, res |-> res]

Init ==
  /\ nodes = [i \in Slots |-> Node_new]
  /\ fwd = [i \in Slots |-> {}]
  /\ inserted = [i \in Slots |-> FALSE]
  /\ last = Call("new", 1, NoKey, NoArg, NoRes)

Pairs(prop, values) == {<<prop, values[j]>> : j \in DOMAIN values}

OptOf(S) == {None} \cup {Some(x) : x \in S}

\* --------------------------------------------------- operations on a slot
Insert(i, prop, value) ==
  \E n \in insert(nodes[i], prop, value) : nodes' = [nodes EXCEPT ![i] = n]

InsertAll(i, prop, values) ==
  \E n \in insert_all(nodes[i], prop, values) : nodes' = [nodes EXCEPT ![i] = n]

InsertReverse(i, prop, value) ==
  \E n \in insert_reverse(nodes[i], prop, value) : nodes' = [nodes EXCEPT ![i] = n]

InsertAllReverse(i, prop, values) ==
  \E n \in insert_all_reverse(nodes[i], prop, values) : nodes' = [nodes EXCEPT ![i] = n]

\* Writes of the pub(crate) fields by the rest of the crate.
SetId(i, v) == nodes' = [nodes EXCEPT ![i].id = v]

SetTypes(i, v) == nodes' = [nodes EXCEPT ![i].types = v]

SetGraph(i, v) == nodes' = [nodes EXCEPT ![i].graph = v]

SetIncluded(i, v) == nodes' = [nodes EXCEPT ![i].included = v]

SetLanguage(i, v) == nodes' = [nodes EXCEPT ![i].language = v]

SetDirection(i, v) == nodes' = [nodes EXCEPT ![i].direction = v]

SetExpandedProperty(i, v) == nodes' = [nodes EXCEPT ![i].expanded_property = v]

\* ------------------------------------------------------- the calls, observed
CallInsert(i, P, O) ==
  \E p \in P, v \in O :
    /\ Insert(i, p, v)
    /\ fwd' = [fwd EXCEPT ![i] = @ \cup {<<p, v>>}]
    /\ inserted' = [inserted EXCEPT ![i] = TRUE]
    /\ last' = Call("insert", i, p, {v}, NoRes)

CallInsertAll(i, P, O) ==
  \E p \in P, vs \in SeqsUpTo(O, MaxIter) :
    /\ InsertAll(i, p, vs)
    /\ fwd' = [fwd EXCEPT ![i] = @ \cup Pairs(p, vs)]
    /\ inserted' = [inserted EXCEPT ![i] = @ \/ Len(vs) > 0]
    /\ last' = Call("insert_all", i, p, SetOf(vs), NoRes)

CallInsertReverse(i, P, O) ==
  \E p \in P, v \in O :
    /\ InsertReverse(i, p, v)
    /\ inserted' = [inserted EXCEPT ![i] = TRUE]
    /\ last' = Call("insert_reverse", i, p, {v}, NoRes)
    /\ UNCHANGED fwd

CallInsertAllReverse(i, P, O) ==
  \E p \in P, vs \in SeqsUpTo(O, MaxIter) :
    /\ InsertAllReverse(i, p, vs)
    /\ inserted' = [inserted EXCEPT ![i] = @ \/ Len(vs) > 0]
    /\ last' = Call("insert_all_reverse", i, p, SetOf(vs), NoRes)
    /\ UNCHANGED fwd

\* into_unnamed_graph takes the node by value: on Ok the node is gone and the
\* slot holds a new one, on Err the node handed back is kept.
IntoUnnamedGraph(i) ==
  /\ nodes' = IF into_unnamed_graph(nodes[i]).ok
              THEN [nodes EXCEPT ![i] = Node_new]
              ELSE [nodes EXCEPT ![i] = into_unnamed_graph(nodes[i]).val]
  /\ last' = Call("into_unnamed_graph", i, NoKey, NoArg, into_unnamed_graph(nodes[i]))
  /\ UNCHANGED <<fwd, inserted>>

Get(i, P) ==
  \E p \in P :
    /\ last' = Call("get", i, p, NoArg, get(nodes[i], p))
    /\ UNCHANGED <<nodes, fwd, inserted>>

IsEmpty(i) ==
  /\ last' = Call("is_empty", i, NoKey, NoArg, is_empty(nodes[i]))
  /\ UNCHANGED <<nodes, fwd, inserted>>

TryFrom ==
  \E name \in Tokens :
    /\ last' = Call("try_from", 1, NoKey, {name}, try_from(name))
    /\ UNCHANGED <<nodes, fwd, inserted>>

Fmt ==
  \E d \in Direction :
    /\ last' = Call("fmt", 1, NoKey, {d}, fmt(d))
    /\ UNCHANGED <<nodes, fwd, inserted>>

Written(i) ==
  /\ last' = Call("set", i, NoKey, NoArg, NoRes)
  /\ UNCHANGED <<fwd, inserted>>

\* ---------------------------------- Spec: one node, its properties in full
Next ==
  \/ CallInsert(1, Props, Objs)
  \/ CallInsertAll(1, Props, Objs)
  \/ CallInsertReverse(1, Props, Objs)
  \/ CallInsertAllReverse(1, Props, Objs)
  \/ \E v \in OptOf({<<"Alice">>}) : SetGraph(1, v) /\ Written(1)
  \/ Get(1, Props)
  \/ IsEmpty(1)
  \/ IntoUnnamedGraph(1)
  \/ TryFrom
  \/ Fmt

Spec == Init /\ [][Next]_vars

\* ------------------------------ SpecShape: one node, every field written
ShapeProps == {"name"}

ShapeObjs == {"Alice"}

NextShape ==
  \/ CallInsert(1, ShapeProps, ShapeObjs)
  \/ CallInsertAll(1, ShapeProps, ShapeObjs)
  \/ CallInsertReverse(1, ShapeProps, ShapeObjs)
  \/ CallInsertAllReverse(1, ShapeProps, ShapeObjs)
  \/ \E v \in OptOf(Ids) : SetId(1, v) /\ Written(1)
  \/ \E v \in SeqsUpTo(Types, 1) : SetTypes(1, v) /\ Written(1)
  \/ \E v \in OptOf({<<>>, <<"Alice">>}) : SetGraph(1, v) /\ Written(1)
  \/ \E v \in OptOf({<<"Alicia">>}) : SetIncluded(1, v) /\ Written(1)
  \/ \E v \in OptOf(Langs) : SetLanguage(1, v) /\ Written(1)
  \/ \E v \in OptOf(Direction) : SetDirection(1, v) /\ Written(1)
  \/ \E v \in OptOf(ShapeProps) : SetExpandedProperty(1, v) /\ Written(1)
  \/ IsEmpty(1)
  \/ IntoUnnamedGraph(1)

SpecShape == Init /\ [][NextShape]_vars

Unobserved == UNCHANGED <<fwd, inserted, last>>

\* ------------- SpecPair: two nodes built independently, compared and hashed
Graphs == {<<"Alice", "Alicia">>, <<"Alicia", "Alice">>}

NextPair ==
  \E i \in Slots :
    \/ \E p \in Props, v \in Objs : Insert(i, p, v) /\ Unobserved
    \/ \E p \in Props, vs \in SeqsUpTo(Objs, MaxIter) :
         InsertAll(i, p, vs) /\ Unobserved
    \/ \E p \in Props, v \in Objs : InsertReverse(i, p, v) /\ Unobserved
    \/ \E p \in Props, vs \in SeqsUpTo(Objs, MaxIter) :
         InsertAllReverse(i, p, vs) /\ Unobserved
    \/ \E v \in OptOf(Graphs) : SetGraph(i, v) /\ Unobserved

SpecPair == Init /\ [][NextPair]_vars

\* ------------ SpecOrder: two nodes, each built by insert calls in some order
NextOrder == \E i \in Slots : CallInsert(i, Props, Objs)

SpecOrder == Init /\ [][NextOrder]_vars

\* ------------------------------------------------------------------ claims
HasValue(m, prop, value) ==
  /\ HashMap_contains(m, prop)
  /\ HashSet_contains(HashMap_get(m, prop), value)

NoRepeat(s) == \A i, j \in DOMAIN s : s[i] = s[j] => i = j

\* C1: two nodes that compare equal have equal hashes, whatever the order in
\* which their values and their property keys were inserted and whatever
\* their embedded sets hold.
C1_EqualNodesHashEqual ==
  Node_eq(nodes[1], nodes[2]) => Node_hash(nodes[1]) = Node_hash(nodes[2])

\* Two equal nodes whose property keys, whose values under "name" and whose
\* graph members are all enumerated in different orders.
C1_Witness ==
  /\ Node_eq(nodes[1], nodes[2])
  /\ Len(nodes[1].properties) = 2
  /\ nodes[1].properties[1].key # nodes[2].properties[1].key
  /\ Len(get(nodes[1], "name")) = 2
  /\ get(nodes[1], "name") # get(nodes[2], "name")
  /\ is_some(nodes[1].graph)
  /\ nodes[1].graph # nodes[2].graph

\* C2: two fresh nodes handed the same (property, value) pairs through insert,
\* in whatever orders and with whatever repetitions, compare equal.
C2_SameInsertionsEqualNodes ==
  fwd[1] = fwd[2] => Node_eq(nodes[1], nodes[2])

\* Both nodes were handed all four pairs, and hold them in different orders.
C2_Witness ==
  /\ fwd[1] = fwd[2]
  /\ Cardinality(fwd[1]) = 4
  /\ nodes[1].properties[1].key # nodes[2].properties[1].key
  /\ get(nodes[1], "name") # get(nodes[2], "name")

\* C3: insert_reverse and insert_all_reverse put their values into
\* reverse_properties[key] and leave the forward properties map as it was.
C3_ReverseInsertFillsReverseMap ==
  [][last'.op \in {"insert_reverse", "insert_all_reverse"} =>
       /\ \A v \in last'.arg :
            HasValue(nodes'[last'.slot].reverse_properties, last'.key, v)
       /\ nodes'[last'.slot].properties = nodes[last'.slot].properties]_vars

\* C4: get(k) yields, each once, exactly the values handed to insert(k, _) and
\* insert_all(k, _), and nothing when none was.
C4_GetYieldsForwardValues ==
  last.op = "get" =>
    /\ NoRepeat(last.res)
    /\ SetOf(last.res) = {v \in Objs : <<last.key, v>> \in fwd[last.slot]}

\* C5: no key of properties or of reverse_properties maps to an empty set, and
\* no operation takes a value out of a key's set.
C5_EntriesNonEmptyAndKept ==
  [][\A i \in Slots :
       /\ \A j \in DOMAIN nodes'[i].properties : Len(nodes'[i].properties[j].values) > 0
       /\ \A j \in DOMAIN nodes'[i].reverse_properties :
            Len(nodes'[i].reverse_properties[j].values) > 0
       /\ \A p \in Props, v \in Objs :
            /\ HasValue(nodes[i].properties, p, v) => HasValue(nodes'[i].properties, p, v)
            /\ HasValue(nodes[i].reverse_properties, p, v) =>
                 HasValue(nodes'[i].reverse_properties, p, v)]_vars

\* insert_all_reverse was just called with an empty iterator on a key the node
\* does not hold, while the other key holds both values.
C5_Witness ==
  /\ last.op = "insert_all_reverse"
  /\ last.arg = {}
  /\ ~HashMap_contains(nodes[1].properties, last.key)
  /\ Len(nodes[1].properties) = 1
  /\ Len(nodes[1].properties[1].values) = 2

\* C6: insert_all with an empty iterator changes nothing of the node: no entry
\* is made for an absent key, a present key keeps its set, every other field
\* stays.
C6_EmptyInsertAllChangesNothing ==
  [][(last'.op = "insert_all" /\ last'.arg = {}) => nodes' = nodes]_vars

\* insert_all was just called with an empty iterator on an absent key of a
\* node that holds a graph and values under the other key.
C6_Witness ==
  /\ last.op = "insert_all"
  /\ last.arg = {}
  /\ ~HashMap_contains(nodes[1].properties, last.key)
  /\ Len(nodes[1].properties) = 1
  /\ is_some(nodes[1].graph)

\* C7: into_unnamed_graph returns Ok(g) exactly when the graph g is present
\* and every other field is empty or absent; in every other case it returns
\* Err(node) with the node as it was handed in.
C7_IntoUnnamedGraph ==
  [][last'.op = "into_unnamed_graph" =>
       LET n == nodes[last'.slot]
           r == last'.res
       IN  /\ r.ok <=> (is_some(n.graph) /\ [n EXCEPT !.graph = None] = Node_new)
           /\ r.ok => r.val = unwrap(n.graph)
           /\ ~r.ok => (r.val = n /\ nodes'[last'.slot] = n)]_vars

\* into_unnamed_graph just returned the graph of a node that held nothing else.
C7_Witness ==
  /\ last.op = "into_unnamed_graph"
  /\ last.res.ok
  /\ last.res.val = <<"Alice">>

\* C8: is_empty is true exactly when every field but id is empty or absent,
\* and a node that an insertion call has handed a value is not empty, then or
\* later.
C8_IsEmpty ==
  /\ last.op = "is_empty" =>
       (last.res <=> [nodes[last.slot] EXCEPT !.id = None] = Node_new)
  /\ \A i \in Slots : inserted[i] => ~is_empty(nodes[i])

\* is_empty just answered true for a node whose id is set.
C8_Witness ==
  /\ last.op = "is_empty"
  /\ last.res
  /\ is_some(nodes[1].id)

\* is_empty just answered false for a node that holds nothing but one
\* inserted value.
C8_WitnessInserted ==
  /\ last.op = "is_empty"
  /\ ~last.res
  /\ inserted[1]
  /\ [nodes[1] EXCEPT !.properties = HashMap_new] = Node_new

\* C9: "ltr" and "rtl" parse, and render back to themselves; a rendered
\* direction parses back to itself; every other string, "LTR" included, fails
\* to parse and comes back as the error.
C9_DirectionRoundTrip ==
  /\ last.op = "try_from" =>
       \A t \in last.arg :
         IF t \in {"ltr", "rtl"}
         THEN last.res.ok /\ fmt(last.res.val) = t
         ELSE ~last.res.ok /\ last.res.val = t
  /\ last.op = "fmt" => \A d \in last.arg : try_from(last.res) = Ok(d)

\* try_from was just handed "LTR" and refused it.
C9_Witness ==
  /\ last.op = "try_from"
  /\ last.arg = {"LTR"}
  /\ ~last.res.ok

\* C10: calling insert(key, value) again leaves a node equal to the node after
\* the first call; after two such calls on a fresh node the set of that key
\* has one value.
C10_InsertIdempotent ==
  [][last'.op = "insert" =>
       \A v \in last'.arg :
         \A n2 \in insert(nodes'[last'.slot], last'.key, v) :
           /\ Node_eq(n2, nodes'[last'.slot])
           /\ nodes[last'.slot] = Node_new => Len(get(n2, last'.key)) = 1]_vars

\* insert was just called on a node that now holds nothing but that one value.
C10_Witness ==
  /\ last.op = "insert"
  /\ [nodes[1] EXCEPT !.properties = HashMap_new] = Node_new
  /\ Len(nodes[1].properties) = 1
  /\ SetOf(get(nodes[1], last.key)) = last.arg

====
